---- MODULE Spec2Model ----
(***************************************************************************)
(* Weak-instrument Monte Carlo demo: the simulation engine                 *)
(* (services/simulation: SeededRNG, generateCorrelatedNormals, the         *)
(* estimators, runMonteCarloAsync, createHistogramData) and the React      *)
(* driver around it (App: handleRunSimulation, handlePause, handleCancel,  *)
(* checkPause, the mount effect and the isPausedRef effect).               *)
(*                                                                         *)
(* Numbers.  JavaScript numbers are doubles; the model computes with exact *)
(* integers and rationals.  A 32-bit pattern is a pair <<hi, lo>> of       *)
(* 16-bit halves, because TLC's integers are 32-bit signed.                  *)
(***************************************************************************)
EXTENDS Integers, Sequences, FiniteSets, TLC

----------------------------------------------------------------------------
(* State                                                                   *)

VARIABLES
  ui,                 \* the committed render: the useState values that the
                      \* handlers on screen have closed over
  queue,              \* state updates not rendered yet, oldest first
  isPausedRef,        \* isPausedRef.current
  abortControllerRef, \* abortControllerRef.current: a run's index, 0 = null
  runs,               \* every call of runMonteCarloAsync so far
  mounted,            \* the mount effect has run
  edits,              \* parameter edits so far
  hist                \* a call of createHistogramData: arguments and value

vars == <<ui, queue, isPausedRef, abortControllerRef, runs, mounted, edits,
          hist>>

----------------------------------------------------------------------------
(* 32-bit patterns                                                         *)

W16 == 65536

\* F applied to the value of v, which is computed once
Let1(v, F(_)) == CHOOSE y \in {F(x) : x \in {v}} : TRUE

RECURSIVE Xor16(_, _)
Xor16(a, b) ==
  IF a = 0 THEN b
  ELSE IF b = 0 THEN a
  ELSE 2 * Xor16(a \div 2, b \div 2) + (((a % 2) + (b % 2)) % 2)

RECURSIVE Or16(_, _)
Or16(a, b) ==
  IF a = 0 THEN b
  ELSE IF b = 0 THEN a
  ELSE 2 * Or16(a \div 2, b \div 2) + (IF (a % 2) + (b % 2) > 0 THEN 1 ELSE 0)

RECURSIVE Pow2(_)
Pow2(k) == IF k = 0 THEN 1 ELSE 2 * Pow2(k - 1)

\* a ^ b
Xor32(a, b) == <<Xor16(a[1], b[1]), Xor16(a[2], b[2])>>

\* a | c for a constant c < 2^16
OrLow(a, c) == <<a[1], Or16(a[2], c)>>

\* a >>> k, 0 < k < 16
Shr32(a, k) ==
  <<a[1] \div Pow2(k), (a[1] % Pow2(k)) * Pow2(16 - k) + (a[2] \div Pow2(k))>>

\* (a + b) mod 2^32: the bits ToInt32 keeps of a sum
Add32(a, b) ==
  LET lo == a[2] + b[2]
  IN  <<(a[1] + b[1] + (lo \div W16)) % W16, lo % W16>>

\* the 32-bit product a * b of two 16-bit values, as <<hi, lo>>
Mul16(a, b) ==
  LET q1  == (a \div 256) * b
      q0  == (a % 256) * b
      low == (q1 % 256) * 256 + q0
  IN  <<((q1 \div 256) + (low \div W16)) % W16, low % W16>>

\* Math.imul(a, b): the low 32 bits of the product
imul(a, b) ==
  LET ll == Mul16(a[2], b[2])
  IN  <<(ll[1] + Mul16(a[1], b[2])[2] + Mul16(a[2], b[1])[2]) % W16, ll[2]>>

----------------------------------------------------------------------------
(* SeededRNG (Mulberry32)                                                  *)

\* 0x6D2B79F5 as <<hi, lo>>
IncHi == 27947
IncLo == 31221

\* The generator's state is the double  seed + draws * 0x6D2B79F5 : the
\* code never truncates it, so it is kept as the pair (seed, draws), exact
\* for as long as the double is (below 2^53).
\* (mutant) a generator seeded anew that starts at the position the last
\* run's generator had reached
SeededRNG_carried(seed) ==
  [seed |-> seed,
   draws |-> IF runs = <<>> THEN 0 ELSE runs[Len(runs)].rng.draws]

\* (mutant) one generator for the module, carried over from the last run
SeededRNG_shared(seed) ==
  IF runs = <<>> THEN [seed |-> seed, draws |-> 0] ELSE runs[Len(runs)].rng
SeededRNG(seed) == [seed |-> seed, draws |-> 0]

\* ToInt32 of the state after the increment
StateBits(rng) ==
  LET lo == (rng.seed % W16) + rng.draws * IncLo
      hi == (rng.seed \div W16) + rng.draws * IncHi + (lo \div W16)
  IN  <<hi % W16, lo % W16>>

\* the unsigned 32-bit value next() divides by 4294967296
mix1(t) == imul(Xor32(t, Shr32(t, 15)), OrLow(t, 1))
mix2(t) == Xor32(t, Add32(t, imul(Xor32(t, Shr32(t, 7)), OrLow(t, 61))))
mix3(t) == Xor32(t, Shr32(t, 14))
nextBits(rng) ==
  Let1(StateBits(rng), LAMBDA t0 :
    Let1(mix1(t0), LAMBDA t1 :
      Let1(mix2(t1), LAMBDA t2 : mix3(t2))))

\* state += 0x6D2B79F5
advance(rng) == [rng EXCEPT !.draws = @ + 1]

----------------------------------------------------------------------------
(* Numbers the estimators return                                           *)

RECURSIVE GCD(_, _)
GCD(a, b) == IF b = 0 THEN a ELSE GCD(b, a % b)

Abs(a) == IF a < 0 THEN -a ELSE a

NaN == [k |-> "NaN", n |-> 0, d |-> 0]
Inf(sign) == [k |-> "Infinity", n |-> sign, d |-> 0]

\* the JavaScript quotient num / den of two integers, in lowest terms
Div(num, den) ==
  IF den = 0
    THEN IF num = 0 THEN NaN ELSE Inf(IF num > 0 THEN 1 ELSE -1)
    ELSE Let1(GCD(Abs(num), Abs(den)), LAMBDA g :
           LET s == IF den < 0 THEN -1 ELSE 1
           IN  [k |-> "fin", n |-> s * (num \div g), d |-> s * (den \div g)])

Zero == Div(0, 1)

----------------------------------------------------------------------------
(* generateCorrelatedNormals                                               *)
(*                                                                         *)
(* Math.log, Math.cos and Math.sin are evaluated on the two leading bits   *)
(* of a draw: the angle 2*PI*u2 is taken at the start of its quadrant      *)
(* (where cos and sin are exactly 1, 0, -1) and the radius                 *)
(* sqrt(-2 ln u1) at the middle of the quarter u1 falls in, rounded to     *)
(* halves (2.04, 1.40, 0.97, 0.52 -> 4, 3, 2, 1 halves).  A draw of        *)
(* exactly 0 is replaced by the floor 0.0000001, radius 5.68 -> 11 halves. *)
(* Normals are in halves, rho in tenths, so u is in twentieths.            *)

Quarter(bits) == bits[1] \div 16384

Radius(bits) ==
  IF bits = <<0, 0>> THEN 11
  ELSE CASE Quarter(bits) = 0 -> 4
         [] Quarter(bits) = 1 -> 3
         [] Quarter(bits) = 2 -> 2
         [] Quarter(bits) = 3 -> 1

Cos4(bits) ==
  CASE Quarter(bits) = 0 -> 1
    [] Quarter(bits) = 1 -> 0
    [] Quarter(bits) = 2 -> -1
    [] Quarter(bits) = 3 -> 0

Sin4(bits) ==
  CASE Quarter(bits) = 0 -> 0
    [] Quarter(bits) = 1 -> 1
    [] Quarter(bits) = 2 -> 0
    [] Quarter(bits) = 3 -> -1

\* Math.sqrt(1 - rho * rho) in tenths, for rho in tenths; -1 stands for NaN
SqrtOneMinusSq(rho10) ==
  IF rho10 * rho10 > 100 THEN -1
  ELSE CHOOSE s \in 0..10 : s * s = 100 - rho10 * rho10

\* (mutant) a draw of 0 is replaced by a further draw
genStep_redraws(rho10, g) ==
  Let1(nextBits(advance(g.rng)), LAMBDA u1 :
    Let1(nextBits(advance(advance(g.rng))), LAMBDA u2 :
      LET z1   == Radius(u1) * Cos4(u2)
          z2   == Radius(u1) * Sin4(u2)
          valV == z1
          valU == rho10 * z1 + SqrtOneMinusSq(rho10) * z2
      IN  [u |-> Append(g.u, valU), v |-> Append(g.v, valV),
           rng |-> IF u1 = <<0, 0>> THEN advance(advance(advance(g.rng)))
                   ELSE advance(advance(g.rng))]))

\* the loop body for one i: two draws, then the pushes on g.u and g.v
genStep(rho10, g) ==
  Let1(nextBits(advance(g.rng)), LAMBDA u1 :
    Let1(nextBits(advance(advance(g.rng))), LAMBDA u2 :
      LET z1   == Radius(u1) * Cos4(u2)
          z2   == Radius(u1) * Sin4(u2)
          valV == z1
          valU == rho10 * z1 + SqrtOneMinusSq(rho10) * z2
      IN  [u |-> Append(g.u, valU), v |-> Append(g.v, valV),
           rng |-> advance(advance(g.rng))]))

RECURSIVE genLoop(_, _, _, _)
genLoop(i, n, rho10, g) ==
  IF i >= n THEN g
  ELSE Let1(genStep(rho10, g), LAMBDA g1 : genLoop(i + 1, n, rho10, g1))

\* [u, v] and the generator afterwards; uNaN says that every u is NaN
\* (the square root of a negative number times anything is NaN)
generateCorrelatedNormals(n, rho10, rng) ==
  Let1(genLoop(0, n, rho10, [u |-> <<>>, v |-> <<>>, rng |-> rng]), LAMBDA g :
    [u |-> g.u, v |-> g.v, rng |-> g.rng, uNaN |-> SqrtOneMinusSq(rho10) < 0])

----------------------------------------------------------------------------
(* Estimators                                                              *)
(*                                                                         *)
(* A vector is [nan, val]: nan says that every entry is NaN, val holds the *)
(* entries in units of 1/UnitInv.  Means are not divided out: for vectors  *)
(* a, b of length n,  Sc(a, b) = n * SUM (a[i] - mean a) * (b[i] - mean b).*)

UnitInv == 400
ThresholdInv == 1000000000

Vec(val) == [nan |-> FALSE, val |-> val]

RECURSIVE Sum(_)
Sum(a) == IF a = <<>> THEN 0 ELSE a[1] + Sum(Tail(a))

Times(a, b) == [i \in 1..Len(a) |-> a[i] * b[i]]
Scale(c, a) == [i \in 1..Len(a) |-> c * a[i]]
Plus(a, b) == [i \in 1..Len(a) |-> a[i] + b[i]]

Sc(a, b) == Len(a) * Sum(Times(a, b)) - Sum(a) * Sum(b)

\* estimateOLS(x, y) = num / den
estimateOLS(x, y) ==
  IF x.nan \/ y.nan THEN NaN
  ELSE Div(Sc(x.val, y.val), Sc(x.val, x.val))

\* Math.abs(den) < 1e-9 for den = Sc / (n * UnitInv^2)
BelowThreshold(sc, n) ==
  Abs(sc) <= (n * UnitInv * UnitInv - 1) \div ThresholdInv

\* (mutant) no guard on the denominator
estimateIV_unguarded(x, y, z) ==
  IF y.nan THEN NaN ELSE Div(Sc(z.val, y.val), Sc(z.val, x.val))
\* estimateIV(x, y, z): 0 when the denominator is below 1e-9, else num / den
estimateIV(x, y, z) ==
  IF BelowThreshold(Sc(z.val, x.val), Len(x.val)) THEN Zero
  ELSE IF y.nan THEN NaN
  ELSE Div(Sc(z.val, y.val), Sc(z.val, x.val))

\* a vector divided by the gcd of its entries (the F-statistic does not
\* change when z or x is rescaled; this keeps the integers small)
RECURSIVE Content(_)
Content(a) == IF a = <<>> THEN 0 ELSE GCD(Abs(a[1]), Content(Tail(a)))
Primitive(a) ==
  IF Content(a) = 0 THEN a ELSE [i \in 1..Len(a) |-> a[i] \div Content(a)]

\* The first-stage F statistic of runMonteCarloAsync:
\*   piHat = estimateOLS(z, x); ssr = SUM (x - piHat z)^2;
\*   sst = variance(x) * n; rSquared = 1 - ssr / sst;
\*   fStat = rSquared * (n - 2) / (1 - rSquared)
\* With piHat = p / q,  ssr = A / q^2  and  sst = Sc(x, x) / n :
\*   fStat = (Sc(x, x) * q^2 - n * A) * (n - 2) / (n * A)
firstStageF(z0, x0) ==
  Let1(Primitive(z0.val), LAMBDA z :
    Let1(Primitive(x0.val), LAMBDA x :
      Let1(Div(Sc(z, x), Sc(z, z)), LAMBDA piHat :
        Let1(Sum([i \in 1..Len(x) |-> (piHat.d * x[i] - piHat.n * z[i])
                                        * (piHat.d * x[i] - piHat.n * z[i])]),
          LAMBDA A :
            LET n == Len(x)
            IN  IF piHat.k # "fin" THEN NaN
                ELSE IF Sc(x, x) = 0 THEN NaN
                ELSE Div((Sc(x, x) * piHat.d * piHat.d - n * A) * (n - 2),
                         n * A)))))

----------------------------------------------------------------------------
(* createHistogramData                                                     *)
(*                                                                         *)
(* The estimates are integers here (any common unit).  With                *)
(* range = maxVal - minVal:  start = minVal - range / 10  and              *)
(* step = (range * 12 / 10) / bins, so every bound is a multiple of        *)
(* 1 / (10 * bins):  start = startN / (10 bins), step = stepN / (10 bins). *)

\* a.filter(P).length
CountIf(a, P(_)) == Cardinality({i \in 1..Len(a) : P(a[i])})

\* allValues.sort((a, b) => a - b)[index], index from 0; -1000000 stands for
\* undefined (no such index)
SortedAt(a, index) ==
  IF index < 0 \/ index >= Len(a) THEN -1000000
  ELSE CHOOSE v \in {a[i] : i \in 1..Len(a)} :
         /\ CountIf(a, LAMBDA w : w < v) <= index
         /\ index < CountIf(a, LAMBDA w : w <= v)

MinOf(a) == CHOOSE v \in {a[i] : i \in 1..Len(a)} : \A i \in 1..Len(a) : v <= a[i]
MaxOf(a) == CHOOSE v \in {a[i] : i \in 1..Len(a)} : \A i \in 1..Len(a) : v >= a[i]

\* allValues[Math.floor(allValues.length * 0.02)] ?? Math.min(...allValues)
minVal(a) ==
  Let1(SortedAt(a, (Len(a) * 2) \div 100), LAMBDA v :
    IF v = -1000000 THEN MinOf(a) ELSE v)

\* allValues[Math.floor(allValues.length * 0.98)] ?? Math.max(...allValues)
maxVal(a) ==
  Let1(SortedAt(a, (Len(a) * 98) \div 100), LAMBDA v :
    IF v = -1000000 THEN MaxOf(a) ELSE v)

\* (mutant) the upper bound of a bin is inclusive
BinData_closed(i, startN, stepN, bins, ols, iv) ==
  LET rangeStartN == startN + i * stepN
      rangeEndN   == startN + (i + 1) * stepN
      inBin(v)    == v * 10 * bins >= rangeStartN /\ v * 10 * bins <= rangeEndN
  IN  [rangeStart |-> Div(rangeStartN, 10 * bins),
       rangeEnd |-> Div(rangeEndN, 10 * bins),
       midpoint |-> Div(rangeStartN + rangeEndN, 2 * 10 * bins),
       olsFrequency |-> IF Len(ols) # 0 THEN Div(CountIf(ols, inBin), Len(ols))
                        ELSE Zero,
       ivFrequency |-> IF Len(iv) # 0 THEN Div(CountIf(iv, inBin), Len(iv))
                       ELSE Zero]

\* the bin pushed for i (from 0), the bounds given by their numerators
BinData(i, startN, stepN, bins, ols, iv) ==
  LET rangeStartN == startN + i * stepN
      rangeEndN   == startN + (i + 1) * stepN
      inBin(v)    == v * 10 * bins >= rangeStartN /\ v * 10 * bins < rangeEndN
  IN  [rangeStart |-> Div(rangeStartN, 10 * bins),
       rangeEnd |-> Div(rangeEndN, 10 * bins),
       midpoint |-> Div(rangeStartN + rangeEndN, 2 * 10 * bins),
       olsFrequency |-> IF Len(ols) # 0 THEN Div(CountIf(ols, inBin), Len(ols))
                        ELSE Zero,
       ivFrequency |-> IF Len(iv) # 0 THEN Div(CountIf(iv, inBin), Len(iv))
                       ELSE Zero]

\* (mutant) the loop runs for i <= bins
createHistogramData_fencepost(ols, iv, bins) ==
  IF Len(ols \o iv) = 0 THEN <<>>
  ELSE Let1(minVal(ols \o iv), LAMBDA lo :
         Let1(maxVal(ols \o iv), LAMBDA hi :
           LET range  == hi - lo
               startN == (10 * lo - range) * bins
               stepN  == 12 * range
           IN  [k \in 1..(IF bins >= 0 THEN bins + 1 ELSE 0) |->
                  BinData(k - 1, startN, stepN, bins, ols, iv)]))

createHistogramData(ols, iv, bins) ==
  IF Len(ols \o iv) = 0 THEN <<>>
  ELSE Let1(minVal(ols \o iv), LAMBDA lo :
         Let1(maxVal(ols \o iv), LAMBDA hi :
           LET range  == hi - lo
               startN == (10 * lo - range) * bins
               stepN  == 12 * range
           IN  [k \in 1..(IF bins > 0 THEN bins ELSE 0) |->
                  BinData(k - 1, startN, stepN, bins, ols, iv)]))

\* a.sort((a, b) => a - b)
Sorted(a) == [k \in 1..Len(a) |-> SortedAt(a, k - 1)]

\* (mutant) the arguments themselves are sorted
argumentsAfter_sortedInPlace(ols, iv) == <<Sorted(ols), Sorted(iv)>>

\* The caller's two arrays after the call: allValues is a copy
\* ([...ols, ...iv]), the sort is made on the copy and filter builds new
\* arrays.
argumentsAfter(ols, iv) == <<ols, iv>>

\* args: the arrays as they were passed to the first call; ols, iv: the same
\* arrays as they are now; again: the bins of a second call, made on the
\* arrays in the order given by order
NoCall ==
  [ols |-> <<>>, iv |-> <<>>, bins |-> 0, data |-> <<>>, calls |-> 0,
   args |-> <<<<>>, <<>>>>, again |-> <<>>, order |-> "none"]

----------------------------------------------------------------------------
(* Bounds of the model                                                     *)

\* runs started in one behaviour
MaxRuns == 2
\* parameter edits in one behaviour
MaxEdits == 1
\* samples up to this size are materialised; larger ones are kept as terms
MaxMaterialised == 4
\* The replication count of the first render.  The code's is 500; the loop
\* treats every count alike (r < replications, r % batchSize), and the model
\* starts from the smallest multiple of the batch size 10.
InitialReplications == 10

----------------------------------------------------------------------------
(* App and its parameters                                                  *)

BETA_TRUE == 1

\* ivStrength is in twentieths, endogeneity in tenths
SimulationParams(sampleSize, replications, ivStrength, endogeneity, betaTrue, seed) ==
  [sampleSize |-> sampleSize, replications |-> replications,
   ivStrength |-> ivStrength, endogeneity |-> endogeneity,
   betaTrue |-> betaTrue, seed |-> seed]

----------------------------------------------------------------------------
(* runMonteCarloAsync                                                      *)

\* (mutant) the two batch sizes exchanged
batchSize_exchanged(sampleSize) == IF sampleSize > 10000 THEN 10 ELSE 1

batchSize(sampleSize) == IF sampleSize > 10000 THEN 1 ELSE 10

\* An estimate of a sample too large to materialise: the estimator applied
\* to the parameters and to the generator the replication started from.
Term(kind, p, rng) ==
  [k |-> kind, n |-> rng.draws, d |-> 0,
   of |-> <<p.sampleSize, p.ivStrength, p.endogeneity, p.betaTrue, rng.seed>>]

Num(v) == [k |-> v.k, n |-> v.n, d |-> v.d, of |-> <<>>]

\* x = pi * z + v and y = beta * x + u, all in units of 1/400: u and z come
\* in twentieths, v in halves, ivStrength in twentieths
Sample(p, u, v, uNaN, z) ==
  Let1(Vec(Plus(Scale(p.ivStrength, z), Scale(200, v))), LAMBDA x :
    [x |-> x,
     y |-> [nan |-> uNaN, val |-> Plus(Scale(p.betaTrue, x.val), Scale(20, u))],
     z |-> Vec(Scale(20, z))])

\* Lines 142-175: one replication.  The estimates and the generator after.
replication(p, rng) ==
  IF p.sampleSize > MaxMaterialised
    THEN [ols |-> Term("ols", p, rng), iv |-> Term("iv", p, rng),
          f |-> Term("f", p, rng),
          rng |-> [rng EXCEPT !.draws = @ + 2 * p.sampleSize + 2 * p.sampleSize]]
    ELSE Let1(generateCorrelatedNormals(p.sampleSize, p.endogeneity, rng),
           LAMBDA g1 :
             Let1(generateCorrelatedNormals(p.sampleSize, 0, g1.rng),
               LAMBDA g2 : Let1(Sample(p, g1.u, g1.v, g1.uNaN, g2.u),
                 LAMBDA s :
                   [ols |-> Num(estimateOLS(s.x, s.y)),
                    iv |-> Num(estimateIV(s.x, s.y, s.z)),
                    f |-> Num(firstStageF(s.z, s.x)), rng |-> g2.rng])))

\* the body of the for loop after the yield, then r++
body(run) ==
  Let1(replication(run.params, run.rng), LAMBDA rep :
    [run EXCEPT !.olsEstimates = Append(@, rep.ols),
                !.ivEstimates = Append(@, rep.iv),
                !.fStats = Append(@, rep.f),
                !.rng = rep.rng,
                !.r = @ + 1])

\* (mutant) the abort flag is read at the batching boundaries only
RECURSIVE loop_abortAtBoundary(_)
loop_abortAtBoundary(run) ==
  IF ~(run.r < run.params.replications) THEN [run EXCEPT !.pc = "returned"]
  ELSE IF run.r % batchSize(run.params.sampleSize) = 0
    THEN (IF run.aborted THEN [run EXCEPT !.pc = "thrown"]
          ELSE [run EXCEPT !.pc = "yield"])
  ELSE Let1(body(run), LAMBDA next : loop_abortAtBoundary(next))

\* (mutant) a cancelled call returns what it has instead of throwing
RECURSIVE loop_returnsPartial(_)
loop_returnsPartial(run) ==
  IF ~(run.r < run.params.replications) THEN [run EXCEPT !.pc = "returned"]
  ELSE IF run.aborted THEN [run EXCEPT !.pc = "returned"]
  ELSE IF run.r % batchSize(run.params.sampleSize) = 0 THEN [run EXCEPT !.pc = "yield"]
  ELSE Let1(body(run), LAMBDA next : loop_returnsPartial(next))

\* From the loop condition of iteration run.r to the next suspension:
\* "yield" awaits setTimeout(0), "returned" and "thrown" end the call.
RECURSIVE loop(_)
loop(run) ==
  IF ~(run.r < run.params.replications) THEN [run EXCEPT !.pc = "returned"]
  ELSE IF run.aborted THEN [run EXCEPT !.pc = "thrown"]
  ELSE IF run.r % batchSize(run.params.sampleSize) = 0 THEN [run EXCEPT !.pc = "yield"]
  ELSE Let1(body(run), LAMBDA next : loop(next))

\* (mutant) once it has slept, checkPause never returns
checkPause_latched(run, paused) ==
  IF paused \/ run.pc = "paused"
    THEN [run EXCEPT !.pc = "paused", !.waited = TRUE]
  ELSE Let1(body([run EXCEPT !.pc = "running"]), LAMBDA next : loop(next))

\* (mutant) checkPause returns at once
checkPause_neverBlocks(run, paused) ==
  Let1(body([run EXCEPT !.pc = "running"]), LAMBDA next : loop(next))

\* checkPause, called after the yield and again after each 100 ms sleep:
\* sleep while isPausedRef.current, else go on with the replication.
checkPause(run, paused) ==
  IF paused THEN [run EXCEPT !.pc = "paused", !.waited = TRUE]
  ELSE Let1(body([run EXCEPT !.pc = "running"]), LAMBDA next : loop(next))

\* the call runMonteCarloAsync(params, signal, checkPause) up to its first
\* suspension
runMonteCarloAsync(params, caller) ==
  loop([caller |-> caller, params |-> params, aborted |-> FALSE,
        waited |-> FALSE, rng |-> SeededRNG(params.seed), r |-> 0,
        olsEstimates |-> <<>>, ivEstimates |-> <<>>, fStats |-> <<>>,
        pc |-> "running"])

\* the SimulationResult a returned call resolves to (its three sequences;
\* the four summary scalars are functions of them and of betaTrue)
SimulationResult(run) ==
  [olsEstimates |-> run.olsEstimates, ivEstimates |-> run.ivEstimates,
   fStats |-> run.fStats]

Active(run) == run.pc \in {"yield", "paused"}

\* A call that threw leaves nothing behind: once the next call is made the
\* model keeps of it only that it was cancelled.
Forget(run) ==
  IF run.pc = "thrown"
    THEN [run EXCEPT !.rng = SeededRNG(run.params.seed), !.r = 0,
                     !.waited = FALSE, !.olsEstimates = <<>>,
                     !.ivEstimates = <<>>, !.fStats = <<>>]
    ELSE run

----------------------------------------------------------------------------
(* React: state updates and renders                                        *)
(*                                                                         *)
(* An update made in a click or change handler is rendered before the      *)
(* handler's task ends; an update made in an effect or after an await is   *)
(* batched and rendered in a later task (queue).  A render of click        *)
(* updates skips the batched ones, which are applied, in the order they    *)
(* were made, by the later render.                                         *)

RECURSIVE Apply(_, _)
Apply(u, q) ==
  IF q = <<>> THEN u ELSE Apply([u EXCEPT ![q[1][1]] = q[1][2]], Tail(q))

Pending(q, field) == \E k \in 1..Len(q) : q[k][1] = field

\* q and then the update upd.  Every update sets a value (none is a
\* function of the previous one), so of two updates of one field only the
\* later counts and the earlier is dropped.
Enqueue1(q, upd) == SelectSeq(q, LAMBDA e : e[1] # upd[1]) \o <<upd>>

RECURSIVE Enqueue(_, _)
Enqueue(q, updates) ==
  IF updates = <<>> THEN q
  ELSE Enqueue(Enqueue1(q, updates[1]), Tail(updates))

\* the click updates that come after a batched update of the same field
\* stay in the queue behind it
RECURSIVE Rebase(_, _)
Rebase(q, updates) ==
  IF updates = <<>> THEN q
  ELSE Rebase(IF Pending(q, updates[1][1]) THEN Enqueue1(q, updates[1]) ELSE q,
              Tail(updates))

\* useEffect(() => { isPausedRef.current = isPaused }, [isPaused]),
\* run after the commit of newUi
SyncPausedRef(newUi) ==
  isPausedRef' = IF newUi.isPaused # ui.isPaused THEN newUi.isPaused
                 ELSE isPausedRef

\* updates made in a click or change handler, and their render
RenderNow(updates) ==
  /\ ui' = Apply(ui, updates)
  /\ queue' = Rebase(queue, updates)
  /\ SyncPausedRef(Apply(ui, updates))

\* updates made in an effect or after an await
RenderLater(updates) ==
  /\ queue' = Enqueue(queue, updates)
  /\ UNCHANGED <<ui, isPausedRef>>

\* the render of the batched updates
Render ==
  /\ queue # <<>>
  /\ ui' = Apply(ui, queue)
  /\ queue' = <<>>
  /\ SyncPausedRef(Apply(ui, queue))
  /\ UNCHANGED <<abortControllerRef, runs, mounted, edits, hist>>

----------------------------------------------------------------------------
(* App                                                                     *)

null == <<>>

\* what handleRunSimulation does once its await has settled for run i:
\* setResult and setChartData if the call returned, then the finally block
Settled(run, i) ==
  (IF run.pc = "returned"
     THEN << <<"result", <<i>>>>, <<"chartData", <<i>>>> >>
     ELSE <<>>)
  \o << <<"isRunning", FALSE>>, <<"isPaused", FALSE>> >>

\* handleRunSimulation, called from a handler (now) or from an effect
handleRunSimulation(now) ==
  IF ui.isRunning
    THEN UNCHANGED <<ui, queue, isPausedRef, abortControllerRef, runs, edits, hist>>
  ELSE
    \E run \in {runMonteCarloAsync(
                 SimulationParams(ui.sampleSize, ui.replications, ui.ivStrength,
                                  ui.endogeneity, BETA_TRUE, ui.seed), "app")} :
    LET i   == Len(runs) + 1
        starting == << <<"isRunning", TRUE>>, <<"isPaused", FALSE>>,
                       <<"result", null>> >>
    IN  /\ runs' = Append([k \in 1..Len(runs) |-> Forget(runs[k])], run)
        /\ IF Active(run)
             THEN /\ abortControllerRef' = i
                  /\ IF now THEN RenderNow(starting) ELSE RenderLater(starting)
             ELSE /\ abortControllerRef' = 0
                  /\ IF now
                       THEN /\ ui' = Apply(ui, starting)
                            /\ queue' = Enqueue(Rebase(queue, starting), Settled(run, i))
                            /\ SyncPausedRef(Apply(ui, starting))
                       ELSE RenderLater(starting \o Settled(run, i))
        /\ UNCHANGED <<edits, hist>>

\* useEffect(() => { handleRunSimulation() }, [])
MountEffect ==
  /\ ~mounted
  /\ mounted' = TRUE
  /\ Len(runs) < MaxRuns
  /\ handleRunSimulation(FALSE)

\* the Run button, rendered when the committed isRunning is false
ClickRun ==
  /\ mounted
  /\ ~ui.isRunning
  /\ Len(runs) < MaxRuns
  /\ handleRunSimulation(TRUE)
  /\ UNCHANGED mounted

\* handlePause, from the Pause/Resume button rendered while isRunning
handlePause ==
  /\ ui.isRunning
  /\ RenderNow(<< <<"isPaused", ~ui.isPaused>> >>)
  /\ UNCHANGED <<abortControllerRef, runs, mounted, edits, hist>>

\* handleCancel, from the Stop button rendered while isRunning
handleCancel ==
  /\ ui.isRunning
  /\ runs' = IF abortControllerRef # 0
               THEN [runs EXCEPT ![abortControllerRef].aborted = TRUE]
               ELSE runs
  /\ UNCHANGED <<ui, queue, isPausedRef, abortControllerRef, mounted, edits, hist>>

\* A timer of run i fires: the setTimeout(0) of the yield or the 100 ms
\* sleep of checkPause.  The call goes on to its next suspension; when it
\* ends, the caller's continuation runs in the same task.
TimerFires(i) ==
  /\ i \in 1..Len(runs)
  /\ Active(runs[i])
  /\ \E run \in {checkPause(runs[i], isPausedRef)} :
       /\ runs' = [runs EXCEPT ![i] = run]
       /\ IF run.caller = "app" /\ ~Active(run)
            THEN /\ RenderLater(Settled(run, i))
                 /\ abortControllerRef' = 0
            ELSE UNCHANGED <<ui, queue, isPausedRef, abortControllerRef>>
  /\ UNCHANGED <<mounted, edits, hist>>

\* the values the model's user picks in the ControlPanel
SampleSizeOptions == {500, 100000}
ReplicationInputs == {0, 11}
SeedInputs == {1, 12345}

Max(a, b) == IF a > b THEN a ELSE b

\* an onChange handler of the ControlPanel (its inputs are disabled while
\* isRunning)
Change(field, value) ==
  /\ mounted
  /\ ~ui.isRunning
  /\ edits < MaxEdits
  /\ edits' = edits + 1
  /\ ui[field] # value
  /\ RenderNow(<< <<field, value>> >>)
  /\ UNCHANGED <<abortControllerRef, runs, mounted, hist>>

setSampleSize == \E v \in SampleSizeOptions : Change("sampleSize", v)
setReplications == \E v \in ReplicationInputs : Change("replications", Max(10, v))
setSeed == \E v \in SeedInputs : Change("seed", v)

\* the first render of App: the useState and useRef initial values
Init ==
  /\ ui = [ivStrength |-> 10, endogeneity |-> 8, sampleSize |-> 500,
           replications |-> InitialReplications, seed |-> 12345,
           result |-> null, chartData |-> <<>>,
           isRunning |-> FALSE, isPaused |-> FALSE]
  /\ queue = <<>>
  /\ isPausedRef = FALSE
  /\ abortControllerRef = 0
  /\ runs = <<>>
  /\ mounted = FALSE
  /\ edits = 0
  /\ hist = NoCall

Next ==
  \/ MountEffect
  \/ ClickRun
  \/ handlePause
  \/ handleCancel
  \/ Render
  \/ \E i \in 1..MaxRuns : TimerFires(i)
  \/ setSampleSize
  \/ setReplications
  \/ setSeed

Spec == Init /\ [][Next]_vars

----------------------------------------------------------------------------
(* The engine called directly: run(params, cancellationToken, pauseQuery)  *)
(* with parameters the ControlPanel cannot produce and samples small       *)
(* enough to materialise.  The caller owns the signal and the pause flag.  *)

\* the seed whose first draw is exactly 0: seed + 0x6D2B79F5 = 0
ZeroDrawSeed == -1831565813

EngineParams ==
  {SimulationParams(n, reps, 10, rho, BETA_TRUE, seed) :
     n \in {1, 2, 3}, reps \in {0, 3}, rho \in {8, 15},
     seed \in {0, 2, ZeroDrawSeed}}

EngineInit ==
  /\ \E p \in EngineParams : runs = <<runMonteCarloAsync(p, "direct")>>
  /\ ui = [ivStrength |-> 10, endogeneity |-> 8, sampleSize |-> 500,
           replications |-> InitialReplications, seed |-> 12345,
           result |-> null, chartData |-> <<>>,
           isRunning |-> FALSE, isPaused |-> FALSE]
  /\ queue = <<>>
  /\ isPausedRef = FALSE
  /\ abortControllerRef = 0
  /\ mounted = TRUE
  /\ edits = 0
  /\ hist = NoCall

\* controller.abort() by the caller
callerAborts ==
  /\ Active(runs[1])
  /\ ~runs[1].aborted
  /\ runs' = [runs EXCEPT ![1].aborted = TRUE]
  /\ UNCHANGED <<ui, queue, isPausedRef, abortControllerRef, mounted, edits, hist>>

\* the caller sets or clears the flag its pauseQuery polls
callerTogglesPause ==
  /\ Active(runs[1])
  /\ isPausedRef' = ~isPausedRef
  /\ UNCHANGED <<ui, queue, abortControllerRef, runs, mounted, edits, hist>>

EngineNext ==
  \/ TimerFires(1)
  \/ callerAborts
  \/ callerTogglesPause

EngineSpec == EngineInit /\ [][EngineNext]_vars

\* The engine called directly with the sample sizes of the ControlPanel
\* (batch sizes 10 and 1) and replication counts of one and of several
\* batches.  A timer that is due fires; nothing obliges the caller to act.
LongRunParams ==
  {SimulationParams(n, reps, 10, 8, BETA_TRUE, 12345) :
     n \in SampleSizeOptions, reps \in {1, 11}}

LongRunInit ==
  /\ \E p \in LongRunParams : runs = <<runMonteCarloAsync(p, "direct")>>
  /\ ui = [ivStrength |-> 10, endogeneity |-> 8, sampleSize |-> 500,
           replications |-> InitialReplications, seed |-> 12345,
           result |-> null, chartData |-> <<>>,
           isRunning |-> FALSE, isPaused |-> FALSE]
  /\ queue = <<>>
  /\ isPausedRef = FALSE
  /\ abortControllerRef = 0
  /\ mounted = TRUE
  /\ edits = 0
  /\ hist = NoCall

FairEngineSpec ==
  LongRunInit /\ [][EngineNext]_vars /\ WF_vars(TimerFires(1))

----------------------------------------------------------------------------
(* createHistogramData called on its own.  An argument is a concatenation  *)
(* of blocks of equal values; a long block puts its value at the 2nd or    *)
(* the 98th percentile and leaves the others to be trimmed.                *)

\* blocks in the first argument
MaxBlocks == 2

BlockValues == {-2, 0, 3, 10}
BlockLengths == {1, 49}
BinCounts == {1, 3, 40}

Block(v, len) == [i \in 1..len |-> v]

RECURSIVE Blocks(_)
Blocks(n) ==
  IF n = 0 THEN {<<>>}
  ELSE Blocks(n - 1) \cup
       {b \o Block(v, len) : b \in Blocks(n - 1), v \in BlockValues,
                             len \in BlockLengths}

HistInit ==
  /\ \E ols \in Blocks(MaxBlocks), iv \in Blocks(1), bins \in BinCounts :
       hist = [ols |-> ols, iv |-> iv, bins |-> bins, data |-> <<>>,
               calls |-> 0, args |-> <<ols, iv>>, again |-> <<>>,
               order |-> "none"]
  /\ ui = [ivStrength |-> 10, endogeneity |-> 8, sampleSize |-> 500,
           replications |-> InitialReplications, seed |-> 12345,
           result |-> null, chartData |-> <<>>,
           isRunning |-> FALSE, isPaused |-> FALSE]
  /\ queue = <<>>
  /\ isPausedRef = FALSE
  /\ abortControllerRef = 0
  /\ runs = <<>>
  /\ mounted = TRUE
  /\ edits = 0

\* const bins = createHistogramData(ols, iv, bins)
callCreateHistogramData ==
  /\ hist.calls = 0
  /\ hist' = [hist EXCEPT !.data = createHistogramData(hist.ols, hist.iv, hist.bins),
                          !.ols = argumentsAfter(hist.ols, hist.iv)[1],
                          !.iv = argumentsAfter(hist.ols, hist.iv)[2],
                          !.calls = 1]
  /\ UNCHANGED <<ui, queue, isPausedRef, abortControllerRef, runs, mounted, edits>>

Reverse(a) == [k \in 1..Len(a) |-> a[Len(a) + 1 - k]]

\* a second call, on the same arrays or on copies with the elements of each
\* in reverse order
callAgain(order) ==
  /\ hist.calls = 1
  /\ \E ols \in {IF order = "reversed" THEN Reverse(hist.ols) ELSE hist.ols},
        iv \in {IF order = "reversed" THEN Reverse(hist.iv) ELSE hist.iv} :
       hist' = [hist EXCEPT !.again = createHistogramData(ols, iv, hist.bins),
                            !.order = order,
                            !.calls = 2]
  /\ UNCHANGED <<ui, queue, isPausedRef, abortControllerRef, runs, mounted, edits>>

HistNext ==
  \/ callCreateHistogramData
  \/ callAgain("same")
  \/ callAgain("reversed")

HistSpec == HistInit /\ [][HistNext]_vars

----------------------------------------------------------------------------
(* Scheduling: a timer that is due fires, and a batched render is made.    *)
(* Nothing obliges the user to click.                                      *)

FairSpec ==
  /\ Spec
  /\ \A i \in 1..MaxRuns : WF_vars(TimerFires(i))
  /\ WF_vars(Render)

----------------------------------------------------------------------------
(* Properties                                                              *)

RunIds == 1..Len(runs)

\* C1: at most one run is active at any time; a run request made while a
\* run is Running or Paused starts no second replication loop.
C1_AtMostOneActiveRun ==
  Cardinality({i \in RunIds : Active(runs[i])}) <= 1

\* C2: a run for which cancel was requested never ends Completed; it ends
\* Cancelled, with no result exposed.
C2_CancelledNeverCompletes ==
  \A i \in RunIds : runs[i].aborted => runs[i].pc # "returned"

\* C3: from any non-terminal state of a run, Paused included, a cancel
\* request eventually moves the run to Cancelled, with no resume needed.
C3_CancelLeadsToCancelled ==
  \A i \in 1..MaxRuns :
    (i <= Len(runs) /\ Active(runs[i]) /\ runs[i].aborted)
      ~> (i <= Len(runs) /\ runs[i].pc = "thrown")

\* C4: two runs with identical SimulationParams that both complete produce
\* identical olsEstimates, ivEstimates and fStats, whatever the yields,
\* pauses and resumes of each.
C4_Deterministic ==
  \A i, j \in RunIds :
    (/\ runs[i].pc = "returned"
     /\ runs[j].pc = "returned"
     /\ runs[i].params = runs[j].params)
    => SimulationResult(runs[i]) = SimulationResult(runs[j])

C4_Witness ==
  \E i, j \in RunIds :
    /\ i # j
    /\ runs[i].pc = "returned"
    /\ runs[j].pc = "returned"
    /\ runs[i].params = runs[j].params
    /\ runs[i].waited
    /\ ~runs[j].waited

\* what a run has computed so far
Progress(run) ==
  <<run.r, run.rng, run.olsEstimates, run.ivEstimates, run.fStats>>

\* C5: while the pause flag is set and the run is at a batching boundary, no
\* replication is started, no estimate is appended and the generator does
\* not move; once the flag is cleared the run goes on with the replication
\* of the same index from the same generator state.
C5_PauseFreezesRun ==
  [][\A i \in RunIds :
       /\ (Active(runs[i]) /\ isPausedRef)
            => /\ Progress(runs'[i]) = Progress(runs[i])
               /\ Active(runs'[i])
       /\ (runs[i].pc = "paused" /\ Progress(runs'[i]) # Progress(runs[i]))
            => /\ ~isPausedRef
               /\ Len(runs'[i].olsEstimates) > runs[i].r
               /\ SubSeq(runs'[i].olsEstimates, 1, runs[i].r)
                    = runs[i].olsEstimates
               /\ runs'[i].olsEstimates[runs[i].r + 1]
                    = replication(runs[i].params, runs[i].rng).ols
               /\ runs'[i].ivEstimates[runs[i].r + 1]
                    = replication(runs[i].params, runs[i].rng).iv
               /\ runs'[i].fStats[runs[i].r + 1]
                    = replication(runs[i].params, runs[i].rng).f]_vars

C5_Witness ==
  \E i \in RunIds :
    /\ runs[i].waited
    /\ runs[i].pc = "returned"
    /\ runs[i].params.replications > 10

\* sample size < 2, replication count < 1 or rho outside (-1, 1)
InvalidConfiguration(p) ==
  \/ p.sampleSize < 2
  \/ p.replications < 1
  \/ p.endogeneity <= -10
  \/ p.endogeneity >= 10

\* C6: a run request with an invalid configuration is rejected before any
\* replication is computed and before any value is drawn, and never
\* produces a SimulationResult.
C6_InvalidConfigurationRejected ==
  \A i \in RunIds :
    InvalidConfiguration(runs[i].params)
      => /\ runs[i].pc \notin {"yield", "paused", "returned"}
         /\ runs[i].rng.draws = 0
         /\ runs[i].olsEstimates = <<>>

\* the generator at the start of replication k (from 0) of a run
RECURSIVE rngAt(_, _)
rngAt(p, k) ==
  IF k = 0 THEN SeededRNG(p.seed)
  ELSE Let1(rngAt(p, k - 1), LAMBDA rng : replication(p, rng).rng)

\* the IV denominator of replication k is below 1e-9
Degenerate(p, k) ==
  Let1(generateCorrelatedNormals(p.sampleSize, p.endogeneity, rngAt(p, k)),
    LAMBDA g1 :
      Let1(generateCorrelatedNormals(p.sampleSize, 0, g1.rng), LAMBDA g2 :
        Let1(Sample(p, g1.u, g1.v, g1.uNaN, g2.u), LAMBDA s :
          BelowThreshold(Sc(s.z.val, s.x.val), p.sampleSize))))

\* C7: in a replication whose IV denominator is below 1e-9 the IV estimate
\* recorded is exactly 0, whatever y is; the run does not abort: the OLS
\* estimate and the F statistic of that replication are appended and the
\* following replications execute.
C7_DegenerateIVIsZero ==
  \A i \in RunIds :
    /\ \A k \in 1..Len(runs[i].ivEstimates) :
         Degenerate(runs[i].params, k - 1)
           => /\ runs[i].ivEstimates[k] = Num(Zero)
              /\ Len(runs[i].olsEstimates) >= k
              /\ Len(runs[i].fStats) >= k
    /\ runs[i].pc = "thrown" => runs[i].aborted
    /\ runs[i].pc = "returned" /\ runs[i].params.replications >= 0
         => Len(runs[i].ivEstimates) = runs[i].params.replications

C7_Witness ==
  \E i \in RunIds :
    /\ runs[i].pc = "returned"
    /\ runs[i].params.sampleSize >= 2
    /\ \E k \in 1..(Len(runs[i].ivEstimates) - 1) :
         /\ Degenerate(runs[i].params, k - 1)
         /\ ~Degenerate(runs[i].params, k)
         /\ runs[i].ivEstimates[k] = Num(Zero)
         /\ runs[i].ivEstimates[k + 1] # Num(Zero)
         /\ runs[i].olsEstimates[k] # Num(Zero)

\* C8: at every replication boundary the three result sequences have the
\* same length, the number of replications completed so far, and a
\* SimulationResult is emitted only when that length is the replication
\* count R.
C8_LengthsAgree ==
  /\ \A i \in RunIds :
       /\ Len(runs[i].olsEstimates) = runs[i].r
       /\ Len(runs[i].ivEstimates) = runs[i].r
       /\ Len(runs[i].fStats) = runs[i].r
       /\ runs[i].pc = "returned" => runs[i].r = runs[i].params.replications
  /\ ui.result # null =>
       /\ runs[ui.result[1]].pc = "returned"
       /\ Len(SimulationResult(runs[ui.result[1]]).olsEstimates)
            = runs[ui.result[1]].params.replications

C8_Witness ==
  /\ ui.result # null
  /\ \E i \in RunIds : runs[i].pc = "thrown"
  /\ runs[ui.result[1]].waited
  /\ Len(SimulationResult(runs[ui.result[1]]).fStats) = 11

\* a - b for two finite numbers
Minus(a, b) == Div(a.n * b.d - b.n * a.d, a.d * b.d)

\* C9: createHistogramData returns an empty sequence when both inputs are
\* empty; for any non-empty input (also when one of the two is empty) it
\* returns exactly the requested number of bins, all of equal width and
\* contiguous.
C9_BinsEqualAndContiguous ==
  hist.calls >= 1 =>
    IF Len(hist.ols) = 0 /\ Len(hist.iv) = 0 THEN hist.data = <<>>
    ELSE /\ Len(hist.data) = hist.bins
         /\ \A k \in 1..Len(hist.data) :
              Minus(hist.data[k].rangeEnd, hist.data[k].rangeStart)
                = Minus(hist.data[1].rangeEnd, hist.data[1].rangeStart)
         /\ \A k \in 1..(Len(hist.data) - 1) :
              hist.data[k].rangeEnd = hist.data[k + 1].rangeStart

C9_Witness ==
  /\ hist.calls = 1
  /\ Len(hist.ols) > 0
  /\ Len(hist.iv) = 0
  /\ Len(hist.data) = 40
  /\ hist.data[1].rangeEnd # hist.data[1].rangeStart

\* the number of estimates counted over all bins, from the frequencies
RECURSIVE Counted(_, _, _)
Counted(data, field, len) ==
  IF data = <<>> THEN 0
  ELSE data[1][field].n * (len \div data[1][field].d)
         + Counted(Tail(data), field, len)

\* C10: the olsFrequency values summed over all bins are <= 1, and so are
\* the ivFrequency values: each estimate is counted in at most one bin.
C10_FrequenciesAtMostOne ==
  hist.calls >= 1 =>
    /\ Counted(hist.data, "olsFrequency", Len(hist.ols)) <= Len(hist.ols)
    /\ Counted(hist.data, "ivFrequency", Len(hist.iv)) <= Len(hist.iv)

C10_Witness ==
  /\ hist.calls = 1
  /\ Len(hist.ols) > 0
  /\ Len(hist.iv) > 0
  /\ Counted(hist.data, "olsFrequency", Len(hist.ols)) = Len(hist.ols)
  /\ Counted(hist.data, "ivFrequency", Len(hist.iv)) < Len(hist.iv)
  /\ hist.bins = 3

\* C11: an accepted run request discards the exposed SimulationResult at that
\* moment and none is exposed while a run is Running or Paused: an exposed
\* result is the output of the most recent run, which completed, with no run
\* started after it.
C11_ResultIsOfLastRun ==
  ui.result # null =>
    /\ ui.result[1] = Len(runs)
    /\ runs[Len(runs)].pc = "returned"

\* C12: after a run has ended Cancelled, neither the SimulationResult nor the
\* histogram bin data of an earlier completed run is exposed.
C12_NothingShownAfterCancel ==
  (runs # <<>> /\ runs[Len(runs)].pc = "thrown" /\ queue = <<>>)
    => /\ ui.result = null
       /\ ui.chartData = <<>>

\* a run has ended, none is active and every state update has been rendered
Ended(run) == run.pc \in {"returned", "thrown"}
DriverIdle ==
  /\ runs # <<>>
  /\ \A i \in RunIds : Ended(runs[i])
  /\ queue = <<>>

\* C13: once a run has ended the driver is Idle: the running and the paused
\* flag are false and the cancellation handle is released; a pause/resume
\* toggle has no effect on the ended run; the next run request is accepted and
\* starts unpaused with a fresh, un-aborted token.
C13_IdleAfterEnd ==
  /\ [](DriverIdle => /\ ~ui.isRunning
                      /\ ~ui.isPaused
                      /\ ~isPausedRef
                      /\ abortControllerRef = 0)
  /\ [][/\ \A i \in RunIds :
             Ended(runs[i]) => runs'[i] \in {runs[i], Forget(runs[i])}
        /\ (DriverIdle /\ Len(runs') > Len(runs))
             => /\ Active(runs'[Len(runs')])
                /\ ~runs'[Len(runs')].aborted
                /\ abortControllerRef' = Len(runs')
                /\ ui'.isRunning
                /\ ~ui'.isPaused
                /\ ~isPausedRef'
        /\ (DriverIdle /\ Len(runs) < MaxRuns) => ENABLED ClickRun]_vars

RunActive(i) == i <= Len(runs) /\ Active(runs[i])
RunReturned(i) == i <= Len(runs) /\ runs[i].pc = "returned"
RunAborted(i) == i <= Len(runs) /\ runs[i].aborted

\* C14 as stated: a run that is never cancelled, in which every pause is
\* eventually followed by a resume, eventually completes.
C14_CompletesIfResumed ==
  \A i \in 1..MaxRuns :
    ([]<>(~isPausedRef)) => (RunActive(i) ~> (RunReturned(i) \/ RunAborted(i)))

\* C14: a run that is never cancelled and whose pause flag is, from some
\* moment on, clear at every poll eventually completes: from every moment at
\* which the run is active with the flag clear, the run completes, unless it
\* is cancelled or the flag is set again before the next poll.  A run ends
\* only by completion (all R replications) or by a cancel request.
C14_CompletesIfLeftUnpaused ==
  /\ \A i \in 1..MaxRuns :
       (RunActive(i) /\ ~isPausedRef)
         ~> (RunReturned(i) \/ RunAborted(i) \/ isPausedRef)
  /\ [](\A i \in RunIds :
          /\ runs[i].pc = "thrown" => runs[i].aborted
          /\ runs[i].pc = "returned" => runs[i].r = runs[i].params.replications)

C14_Witness ==
  \E i \in RunIds :
    /\ runs[i].waited
    /\ ~runs[i].aborted
    /\ runs[i].pc = "returned"
    /\ runs[i].params.sampleSize > 10000
    /\ Len(SimulationResult(runs[i]).ivEstimates) = 11

\* C15: createHistogramData leaves both input sequences unchanged (same
\* elements in the same order); its output does not depend on the order of
\* the elements within each input; a second call on the same inputs returns
\* the same bins.
C15_HistogramIsPure ==
  /\ hist.calls >= 1 => (hist.ols = hist.args[1] /\ hist.iv = hist.args[2])
  /\ hist.calls = 2 => hist.again = hist.data

C15_Witness ==
  /\ hist.calls = 2
  /\ hist.order = "reversed"
  /\ Reverse(hist.ols) # hist.ols
  /\ Sorted(hist.ols) # hist.ols
  /\ Len(hist.ols) > 50
  /\ Len(hist.iv) > 0
  /\ hist.bins = 3
  /\ hist.again = hist.data
  /\ \E k \in 1..3 : hist.data[k].olsFrequency # Zero

\* K of the batching policy: 1 when the sample size is > 10000, else 10
BatchK(p) == IF p.sampleSize > 10000 THEN 1 ELSE 10

\* C16: the run is suspended (yield, then pause check) exactly before the
\* replications whose index r has r mod K = 0, r = 0 included, and nowhere
\* else: a suspended run stands before such an r, and a step of the run goes
\* on to the next such index (K replications further) or to its end.
C16_SuspendsEveryK ==
  /\ [](\A i \in RunIds :
          Active(runs[i]) => /\ runs[i].r % BatchK(runs[i].params) = 0
                             /\ runs[i].r < runs[i].params.replications)
  /\ [][/\ \A i \in RunIds :
             (Active(runs[i]) /\ runs'[i].r # runs[i].r)
               => /\ runs'[i].r > runs[i].r
                  /\ runs'[i].r <= runs[i].r + BatchK(runs[i].params)
                  /\ Active(runs'[i])
                       => runs'[i].r = runs[i].r + BatchK(runs[i].params)
        /\ Len(runs') > Len(runs)
             => /\ runs'[Len(runs')].r = 0
                /\ Active(runs'[Len(runs')])]_vars

C16_Witness ==
  \E i, j \in RunIds :
    /\ runs[i].params.sampleSize <= 10000
    /\ runs[i].pc = "returned"
    /\ runs[i].r = 10
    /\ runs[j].params.sampleSize > 10000
    /\ runs[j].pc = "paused"
    /\ runs[j].r = 5

\* the generator of a run after k replications of 4N draws each
StreamAt(p, k) == [seed |-> p.seed, draws |-> 4 * p.sampleSize * k]

\* C17: replications are executed and appended in index order and each
\* consumes exactly 4N draws, 2N for (u, v) and then 2N for the instrument,
\* also when the log(0) guard fires: at every replication boundary the
\* number of draws is 4N times the number of completed replications, and
\* the k-th estimates are those of the sample drawn from position 4N(k-1).
C17_FourNDrawsPerReplication ==
  \A i \in RunIds :
    LET p == runs[i].params
    IN  /\ runs[i].rng = StreamAt(p, runs[i].r)
        /\ Let1(generateCorrelatedNormals(p.sampleSize, p.endogeneity,
                                          runs[i].rng), LAMBDA g1 :
             /\ g1.rng.draws = runs[i].rng.draws + 2 * p.sampleSize
             /\ generateCorrelatedNormals(p.sampleSize, 0, g1.rng).rng.draws
                  = runs[i].rng.draws + 4 * p.sampleSize)
        /\ \A k \in 1..runs[i].r :
             Let1(replication(p, StreamAt(p, k - 1)), LAMBDA rep :
               /\ runs[i].olsEstimates[k] = rep.ols
               /\ runs[i].ivEstimates[k] = rep.iv
               /\ runs[i].fStats[k] = rep.f)

C17_Witness ==
  \E i \in RunIds :
    /\ nextBits(advance(SeededRNG(runs[i].params.seed))) = <<0, 0>>
    /\ runs[i].params.sampleSize = 3
    /\ runs[i].pc = "returned"
    /\ runs[i].r = 3
    /\ runs[i].rng.draws = 36
    /\ runs[i].olsEstimates[1] # runs[i].olsEstimates[2]

\* C18: every run starts from a generator of its own whose state is
\* determined by the seed alone, so that its result does not depend on any
\* earlier run (completed, cancelled, or of another seed): whatever runs came
\* before, the generator of a run is at position 4N r of the stream of the
\* run's seed and its k-th estimates are a function of its params alone.
C18_RunsAreIndependent ==
  \A j \in RunIds :
    LET p == runs[j].params
    IN  /\ runs[j].rng.seed = p.seed
        /\ runs[j].rng.draws = 4 * p.sampleSize * runs[j].r
        /\ \A k \in 1..Len(runs[j].olsEstimates) :
             /\ runs[j].olsEstimates[k] = Term("ols", p, StreamAt(p, k - 1))
             /\ runs[j].ivEstimates[k] = Term("iv", p, StreamAt(p, k - 1))
             /\ runs[j].fStats[k] = Term("f", p, StreamAt(p, k - 1))

C18_Witness ==
  \E i, j \in RunIds :
    /\ i < j
    /\ runs[i].pc = "thrown"
    /\ runs[i].params.seed # runs[j].params.seed
    /\ runs[j].pc = "returned"
    /\ ui.result = <<j>>

\* C19: once cancel has been requested on a run that is not paused, at most
\* one further replication is computed before the run stops: the next step
\* of the run either finds the pause flag set and computes nothing, or
\* computes the one replication that follows the yield and ends the run.
C19_OneReplicationAfterCancel ==
  [][\A i \in RunIds :
       (Active(runs[i]) /\ runs[i].aborted /\ runs'[i] # runs[i])
         => \/ /\ isPausedRef
               /\ runs'[i].pc = "paused"
               /\ Progress(runs'[i]) = Progress(runs[i])
            \/ /\ ~isPausedRef
               /\ runs'[i].r = runs[i].r + 1
               /\ Ended(runs'[i])]_vars

C19_Witness ==
  \E i \in RunIds :
    /\ runs[i].pc = "thrown"
    /\ runs[i].r = 1
    /\ runs[i].params.sampleSize <= 10000
    /\ ~runs[i].waited

\* the number of bins [rangeStart, rangeEnd) that contain v
BinsContaining(v, data) ==
  Cardinality({k \in 1..Len(data) :
                 /\ data[k].rangeStart.n <= v * data[k].rangeStart.d
                 /\ v * data[k].rangeEnd.d < data[k].rangeEnd.n})

\* C20: for non-empty input, with lo and hi the values at the indices
\* floor(0.02 L) and floor(0.98 L) of the L merged and sorted values, the
\* bins cover [lo - 0.1 (hi - lo), hi + 0.1 (hi - lo)) and every estimate v
\* with lo <= v <= hi is counted in exactly one bin, also when hi = lo.
C20_BinsCoverTrimmedRange ==
  (hist.calls >= 1 /\ Len(hist.ols \o hist.iv) > 0) =>
    LET all == hist.ols \o hist.iv
        lo  == SortedAt(all, (2 * Len(all)) \div 100)
        hi  == SortedAt(all, (98 * Len(all)) \div 100)
    IN  /\ hist.data[1].rangeStart = Div(10 * lo - (hi - lo), 10)
        /\ hist.data[Len(hist.data)].rangeEnd = Div(10 * hi + (hi - lo), 10)
        /\ \A k \in 1..Len(all) :
             (lo <= all[k] /\ all[k] <= hi)
               => BinsContaining(all[k], hist.data) = 1

====
